---------------------------- MODULE Spec2Model ----------------------------
(***************************************************************************)
(* A model of the monotronian parser module (src/src/parser/mod.rs):       *)
(* the Parser facade (new / feed / get_tree), the AST data types and the   *)
(* Display implementations that turn an AST back into text.                *)
(*                                                                         *)
(* Text is a sequence of one-character strings.  A 64-bit integer is the   *)
(* sequence of its sixteen hexadecimal digits (two's complement, most      *)
(* significant first), so that no arithmetic leaves the 64-bit width.      *)
(***************************************************************************)
EXTENDS Integers, Sequences, FiniteSets, TLC

VARIABLES parser, input, results, tree, ast, text, phase

vars == <<parser, input, results, tree, ast, text, phase>>

(***************************************************************************)
(* Bounds of the model.                                                    *)
(***************************************************************************)
\* Longest arbitrary token sequence handed to a parse session.
MaxLen == 2

\* Most elements of a rendered array or argument list.
MaxArgs == 2

\* Most statements of a rendered block.
MaxStmts == 2

\* Integer literals range over -MaxInt .. MaxInt, i64::MIN and i64::MAX.
MaxInt == 16

\* The two independent parse sessions.
Sessions == {1, 2}

(***************************************************************************)
(* 64-bit integers as sixteen hexadecimal digits.                          *)
(***************************************************************************)
Nibbles == 0 .. 15

Range(f) == {f[i] : i \in DOMAIN f}

RECURSIVE NatNibbles(_, _)
\* The k low hexadecimal digits of the natural number n, most significant first.
NatNibbles(n, k) ==
    IF k = 0 THEN <<>> ELSE Append(NatNibbles(n \div 16, k - 1), n % 16)

RECURSIVE AddOne(_)
\* n + 1 modulo 16^Len(n).
AddOne(n) ==
    IF n = <<>> THEN <<>>
    ELSE LET k == Len(n)
         IN  IF n[k] < 15 THEN [n EXCEPT ![k] = n[k] + 1]
             ELSE Append(AddOne(SubSeq(n, 1, k - 1)), 0)

\* !n, the bitwise complement.
Complement(n) == [i \in 1 .. Len(n) |-> 15 - n[i]]

\* (!n).wrapping_add(1), the two's complement negation.
WrappingNeg(n) == AddOne(Complement(n))

\* The i64 of a small integer.
I64(n) == IF n >= 0 THEN NatNibbles(n, 16) ELSE WrappingNeg(NatNibbles(0 - n, 16))

IsNegative(x) == x[1] >= 8

MinI64 == <<8>> \o [i \in 1 .. 15 |-> 0]

MaxI64 == <<7>> \o [i \in 1 .. 15 |-> 15]

(***************************************************************************)
(* The tokens (lexer::Token).                                              *)
(***************************************************************************)
Tok(t) == [tag |-> t]

DecimalIntLiteral(x) == [tag |-> "DecimalIntLiteral", val |-> x]

HexIntLiteral(x) == [tag |-> "HexIntLiteral", val |-> x]

StringLiteral(s) == [tag |-> "StringLiteral", str |-> s]

IdentifierToken(s) == [tag |-> "Identifier", name |-> s]

InvalidLiteralToken == [tag |-> "InvalidLiteral"]

(***************************************************************************)
(* The AST (Block, Statement, Identifier, Expression, Literal).            *)
(***************************************************************************)
Block(stmts) == [kind |-> "Block", stmts |-> stmts]

StatementLet(id, e) == [kind |-> "Let", id |-> id, expr |-> e]

StatementReturn(e) == [kind |-> "Return", expr |-> e]

StatementExpression(e) == [kind |-> "Expression", expr |-> e]

Identifier(s) == [kind |-> "Identifier", name |-> s]

ExprIdentifier(id) == [kind |-> "ExprIdentifier", id |-> id]

ExprLiteral(lit) == [kind |-> "ExprLiteral", lit |-> lit]

ExprPrefix(op, e) == [kind |-> "Prefix", op |-> op, expr |-> e]

ExprInfix(op, l, r) == [kind |-> "Infix", op |-> op, l |-> l, r |-> r]

\* step and els are None or Some(x)
ExprFor(id, start, end, step, body) ==
    [kind |-> "For", id |-> id, start |-> start, end |-> end, step |-> step,
     body |-> body]

ExprIfExpr(c, t, f) == [kind |-> "IfExpr", cond |-> c, then |-> t, els |-> f]

ExprFunctionCall(f, args) == [kind |-> "FunctionCall", callee |-> f, args |-> args]

ExprArray(es) == [kind |-> "Array", elems |-> es]

\* pairs: a sequence of <<Literal, Expression>>
ExprHash(pairs) == [kind |-> "Hash", pairs |-> pairs]

ExprIndex(a, i) == [kind |-> "Index", array |-> a, index |-> i]

LiteralString(s) == [kind |-> "String", str |-> s]

LiteralDecimalInt(x) == [kind |-> "DecimalInt", val |-> x]

LiteralHexInt(x) == [kind |-> "HexInt", val |-> x]

LiteralBool(b) == [kind |-> "Bool", b |-> b]

None == [kind |-> "None"]

Some(x) == [kind |-> "Some", val |-> x]

InfixOps ==
    {"Add", "Subtract", "Multiply", "Divide", "Equal", "NotEqual",
     "GreaterThan", "GreaterThanOrEqual", "LessThan", "LessThanOrEqual"}

PrefixOps == {"Negate", "Bitflip"}

(***************************************************************************)
(* Results and errors.                                                     *)
(***************************************************************************)
Unit == [kind |-> "Unit"]

Ok(v) == [kind |-> "Ok", val |-> v]

Err(e) == [kind |-> "Err", err |-> e]

\* enum Error { SyntaxError }
Error == {"SyntaxError"}

\* A call that has returned has produced one of the two variants of Result.
Returned(r) == r.kind \in {"Ok", "Err"}

NoResult == [kind |-> "None"]

Moved == [kind |-> "Moved"]

(***************************************************************************)
(* Parser                                                                  *)
(***************************************************************************)
\* Parser::new
new == [kind |-> "Parser", state |-> TRUE]

\* feed with a flag shared by every Parser (a static): only the first call of
\* the whole program is accepted.
feedShared(self, token) ==
    [self |-> self,
     result |-> IF \A s \in DOMAIN results : results[s] = <<>>
                THEN Ok(Unit) ELSE Err("SyntaxError")]

\* feed that never returns: it waits for a token it does not consume.
feedLoops(self, token) == [self |-> self, result |-> [kind |-> "Diverges"]]

\* Parser::feed(&mut self, _token): the parser after the call and the result.
feed(self, token) == [self |-> self, result |-> Err("SyntaxError")]

\* get_tree handing out whatever was built so far.
get_treePartial(self) == Ok(Block(<<>>))

\* Parser::get_tree(self)
get_tree(self) == Err("SyntaxError")

(***************************************************************************)
(* Formatting of integers (core::fmt, as used by Display for Literal).     *)
(***************************************************************************)
HexDigits ==
    <<"0", "1", "2", "3", "4", "5", "6", "7", "8", "9", "a", "b", "c", "d",
      "e", "f">>

DigitChar(d) == HexDigits[d + 1]

IsZero(n) == \A i \in 1 .. Len(n) : n[i] = 0

RECURSIVE StripZeros(_)
\* n without its leading zero digits; one digit is always kept.
StripZeros(n) ==
    IF Len(n) > 1 /\ n[1] = 0 THEN StripZeros(Tail(n)) ELSE n

RECURSIVE DivTen(_, _)
\* Long division by ten of carry * 16^Len(n) + n: quotient q and remainder r.
DivTen(n, carry) ==
    IF n = <<>> THEN [q |-> <<>>, r |-> carry]
    ELSE LET cur  == carry * 16 + Head(n)
             rest == DivTen(Tail(n), cur % 10)
         IN  [q |-> <<cur \div 10>> \o rest.q, r |-> rest.r]

RECURSIVE DecimalDigits(_)
\* The decimal digits of the unsigned number n, none for zero.
DecimalDigits(n) ==
    IF IsZero(n) THEN <<>>
    ELSE LET d == DivTen(n, 0)
         IN  Append(DecimalDigits(d.q), DigitChar(d.r))

\* write!(fmt, "{}", x) for x: i64: a sign and the magnitude in decimal.
FmtDisplayI64(x) ==
    LET mag == IF IsNegative(x) THEN WrappingNeg(x) ELSE x
        ds  == IF IsZero(mag) THEN <<"0">> ELSE DecimalDigits(mag)
    IN  IF IsNegative(x) THEN <<"-">> \o ds ELSE ds

\* write!(fmt, "{:x}", x) for x: i64: the digits of the two's complement.
FmtLowerHexI64(x) == [i \in 1 .. Len(StripZeros(x)) |-> DigitChar(StripZeros(x)[i])]

(***************************************************************************)
(* Display                                                                 *)
(***************************************************************************)
NL == "\n"

QUOTE == "\""

RECURSIVE DisplayBlock(_)
RECURSIVE DisplayStatement(_)
RECURSIVE DisplayExpression(_)
RECURSIVE DisplayStatements(_)
RECURSIVE DisplayElements(_)
RECURSIVE DisplayPairs(_)

\* impl fmt::Display for Identifier
DisplayIdentifier(id) == id.name

\* impl fmt::Display for Literal
DisplayLiteral(lit) ==
    CASE lit.kind = "String"     -> <<QUOTE>> \o lit.str \o <<QUOTE>>
      [] lit.kind = "DecimalInt" -> FmtDisplayI64(lit.val)
      [] lit.kind = "HexInt"     -> <<"0", "x">> \o FmtLowerHexI64(lit.val)
      [] lit.kind = "Bool"       ->
            IF lit.b THEN <<"t", "r", "u", "e">> ELSE <<"f", "a", "l", "s", "e">>

\* impl fmt::Display for Prefix
DisplayPrefix(op) ==
    CASE op = "Negate"  -> <<"-">>
      [] op = "Bitflip" -> <<"!">>

\* impl fmt::Display for Infix
DisplayInfix(op) ==
    CASE op = "Add"                -> <<"+">>
      [] op = "Subtract"           -> <<"-">>
      [] op = "Multiply"           -> <<"*">>
      [] op = "Divide"             -> <<"/">>
      [] op = "Equal"              -> <<"=", "=">>
      [] op = "NotEqual"           -> <<"!", "=">>
      [] op = "GreaterThan"        -> <<">">>
      [] op = "GreaterThanOrEqual" -> <<">", "=">>
      [] op = "LessThan"           -> <<"<">>
      [] op = "LessThanOrEqual"    -> <<"<", "=">>

\* for statement in self.0.iter() { writeln!(fmt, "{}", statement)?; }
DisplayStatements(stmts) ==
    IF stmts = <<>> THEN <<>>
    ELSE DisplayStatement(Head(stmts)) \o <<NL>> \o DisplayStatements(Tail(stmts))

\* impl fmt::Display for Block
DisplayBlock(b) == DisplayStatements(b.stmts)

\* impl fmt::Display for Statement
DisplayStatement(st) ==
    CASE st.kind = "Let" ->
            <<"l", "e", "t", " ">> \o DisplayIdentifier(st.id) \o <<" ", "=", " ">>
                \o DisplayExpression(st.expr) \o <<";", NL>>
      [] st.kind = "Return" ->
            <<"r", "e", "t", "u", "r", "n", " ">> \o DisplayExpression(st.expr)
                \o <<";", NL>>
      [] st.kind = "Expression" -> DisplayExpression(st.expr) \o <<";", NL>>

\* for arg in elements { write!(fmt, "{}, ", arg)?; }
DisplayElements(elements) ==
    IF elements = <<>> THEN <<>>
    ELSE DisplayExpression(Head(elements)) \o <<",", " ">>
             \o DisplayElements(Tail(elements))

\* A list that ends every element, the last one too, with the separator.
DisplayArgsTrailing(args) == DisplayElements(args)

\* if let Some((last, elements)) = args.split_last() { ...; write!("{}", last) }
DisplayArgs(args) ==
    IF args = <<>> THEN <<>>
    ELSE DisplayElements(SubSeq(args, 1, Len(args) - 1))
             \o DisplayExpression(args[Len(args)])

\* for arg in elements { writeln!(fmt, "{}: {}, ", arg.0, arg.1)?; }
DisplayPairs(elements) ==
    IF elements = <<>> THEN <<>>
    ELSE DisplayLiteral(Head(elements)[1]) \o <<":", " ">>
             \o DisplayExpression(Head(elements)[2]) \o <<",", " ", NL>>
             \o DisplayPairs(Tail(elements))

\* The Hash arm's body between the braces.
DisplayMap(map) ==
    IF map = <<>> THEN <<>>
    ELSE LET last == map[Len(map)]
         IN  DisplayPairs(SubSeq(map, 1, Len(map) - 1))
                 \o DisplayLiteral(last[1]) \o <<":", " ">>
                 \o DisplayExpression(last[2]) \o <<NL>>

\* impl fmt::Display for Expression
DisplayExpression(e) ==
    CASE e.kind = "ExprIdentifier" -> DisplayIdentifier(e.id)
      [] e.kind = "ExprLiteral" -> DisplayLiteral(e.lit)
      [] e.kind = "Prefix" -> DisplayPrefix(e.op) \o DisplayExpression(e.expr)
      [] e.kind = "Infix" ->
            DisplayExpression(e.l) \o <<" ">> \o DisplayInfix(e.op) \o <<" ">>
                \o DisplayExpression(e.r)
      [] e.kind = "For" ->
            <<"f", "o", "r", " ">> \o DisplayIdentifier(e.id)
                \o <<" ", "i", "n", " ">> \o DisplayExpression(e.start)
                \o <<" ", "t", "o", " ">> \o DisplayExpression(e.end)
                \o (IF e.step.kind = "Some"
                    THEN <<" ", "s", "t", "e", "p", " ">>
                             \o DisplayExpression(e.step.val)
                    ELSE <<>>)
                \o <<" ", "{">>
                \o DisplayBlock(e.body)
                \o <<"}", NL>>
      [] e.kind = "IfExpr" ->
            <<"i", "f", " ", "(">> \o DisplayExpression(e.cond)
                \o <<")", " ", "{", NL>>
                \o DisplayBlock(e.then)
                \o (IF e.els.kind = "Some"
                    THEN <<"}", " ", "e", "l", "s", "e", " ", "{", NL>>
                             \o DisplayBlock(e.els.val)
                    ELSE <<>>)
                \o <<"}", NL>>
      [] e.kind = "FunctionCall" ->
            DisplayExpression(e.callee) \o <<"(">> \o DisplayArgs(e.args)
                \o <<")", NL>>
      [] e.kind = "Array" -> <<"[">> \o DisplayArgs(e.elems) \o <<"]", NL>>
      [] e.kind = "Hash" -> <<"{">> \o DisplayMap(e.pairs) \o <<"}", NL>>
      [] e.kind = "Index" ->
            DisplayExpression(e.array) \o <<"[">> \o DisplayExpression(e.index)
                \o <<"]">>

\* format!("{}", node): the Display implementation of the node's type.
Display(n) ==
    CASE n.kind = "Block" -> DisplayBlock(n)
      [] n.kind \in {"Let", "Return", "Expression"} -> DisplayStatement(n)
      [] n.kind = "Identifier" -> DisplayIdentifier(n)
      [] n.kind \in {"String", "DecimalInt", "HexInt", "Bool"} -> DisplayLiteral(n)
      [] OTHER -> DisplayExpression(n)

(***************************************************************************)
(* Parse sessions: a caller owns a Parser, feeds it the tokens of its      *)
(* input one at a time and then asks for the tree (the driver of the       *)
(* test make_parser).                                                      *)
(***************************************************************************)
\* The token of the test: Token::DecimalIntLiteral(123)
ProgLiteral == <<DecimalIntLiteral(I64(123))>>

\* 1 + 2 * 3 ;
ProgPrecedence ==
    <<DecimalIntLiteral(I64(1)), Tok("Plus"), DecimalIntLiteral(I64(2)),
      Tok("Asterisk"), DecimalIntLiteral(I64(3)), Tok("Semicolon")>>

\* let x = 1      (no terminator)
ProgLetNoTerminator ==
    <<Tok("Let"), IdentifierToken(<<"x">>), Tok("Assign"),
      DecimalIntLiteral(I64(1))>>

Programs == {ProgLiteral, ProgPrecedence, ProgLetNoTerminator}

SmallTokens == {DecimalIntLiteral(I64(1)), Tok("Plus"), Tok("Semicolon")}

SeqsUpTo(S, n) == UNION {[1 .. k -> S] : k \in 0 .. n}

\* The token sequences a session may be handed.
Inputs == Programs \cup SeqsUpTo(SmallTokens, MaxLen)

\* The number of feed calls session s has made.
Fed(s) == Len(results[s])

\* p.feed(token) with the next token of the input.
Feed(s) ==
    /\ phase = "tokens"
    /\ parser[s] # Moved
    /\ Fed(s) < Len(input[s])
    /\ LET r == feed(parser[s], input[s][Fed(s) + 1])
       IN  /\ Returned(r.result)
           /\ parser' = [parser EXCEPT ![s] = r.self]
           /\ results' = [results EXCEPT ![s] = Append(@, r.result)]
    /\ UNCHANGED <<input, tree, ast, text, phase>>

\* p.get_tree() once every token is fed; the parser is moved into the call.
GetTree(s) ==
    /\ phase = "tokens"
    /\ parser[s] # Moved
    /\ Fed(s) = Len(input[s])
    /\ LET r == get_tree(parser[s])
       IN  /\ Returned(r)
           /\ tree' = [tree EXCEPT ![s] = r]
    /\ parser' = [parser EXCEPT ![s] = Moved]
    /\ UNCHANGED <<input, results, ast, text, phase>>

NoNode == [kind |-> "None"]

Init ==
    /\ parser = [s \in Sessions |-> new]
    /\ input \in [Sessions -> Inputs]
    /\ results = [s \in Sessions |-> <<>>]
    /\ tree = [s \in Sessions |-> NoResult]
    /\ ast = NoNode
    /\ text = <<>>
    /\ phase = "tokens"

Next ==
    \E s \in Sessions :
        \/ Feed(s)
        \/ GetTree(s)

Spec == Init /\ [][Next]_vars

\* A session is a sequential program: its next call is always made.
FairSpec == Spec /\ WF_vars(Next)

Done(s) == tree[s] # NoResult

\* The error a finished session reports: the first one it met.
FirstError(s) ==
    LET bad == {i \in 1 .. Fed(s) : results[s][i].kind = "Err"}
    IN  IF bad # {} THEN results[s][CHOOSE i \in bad : \A j \in bad : i <= j]
        ELSE tree[s]

(***************************************************************************)
(* The token source (the lexer crate, section 6 of the design): text to    *)
(* tokens, with the numeric conversion of integer literals.                *)
(***************************************************************************)
Whitespace == {" ", NL}

DigitChars == {"0", "1", "2", "3", "4", "5", "6", "7", "8", "9"}

HexDigitChars == DigitChars \cup {"a", "b", "c", "d", "e", "f"}

Letters ==
    {"a", "b", "c", "d", "e", "f", "g", "h", "i", "j", "k", "l", "m", "n",
     "o", "p", "q", "r", "s", "t", "u", "v", "w", "x", "y", "z", "_"}

DigitVal(c) == (CHOOSE i \in 1 .. 16 : HexDigits[i] = c) - 1

RECURSIVE RunLen(_, _)
\* The length of the longest prefix of cs made of characters of S.
RunLen(cs, S) ==
    IF cs # <<>> /\ Head(cs) \in S THEN 1 + RunLen(Tail(cs), S) ELSE 0

Drop(cs, k) == SubSeq(cs, k + 1, Len(cs))

Take(cs, k) == SubSeq(cs, 1, k)

(* Magnitudes of any size: hexadecimal digits, least significant first,    *)
(* without leading zeros (zero is the empty sequence).                     *)
RECURSIVE MulTenAdd(_, _)
\* 10 * n + carry
MulTenAdd(n, carry) ==
    IF n = <<>> THEN (IF carry = 0 THEN <<>> ELSE <<carry>>)
    ELSE LET cur == Head(n) * 10 + carry
         IN  <<cur % 16>> \o MulTenAdd(Tail(n), cur \div 16)

RECURSIVE DecimalValue(_)
\* The number a run of decimal digits denotes.
DecimalValue(cs) ==
    IF cs = <<>> THEN <<>>
    ELSE MulTenAdd(DecimalValue(Take(cs, Len(cs) - 1)), DigitVal(cs[Len(cs)]))

\* The number a run of hexadecimal digits denotes.
HexValue(cs) ==
    LET ds == [i \in 1 .. Len(cs) |-> DigitVal(cs[i])]
        k  == RunLen(ds, {0})
    IN  [i \in 1 .. Len(cs) - k |-> ds[Len(cs) + 1 - i]]

\* The magnitude is at most i64::MAX.
FitsI64(mag) == Len(mag) < 16 \/ (Len(mag) = 16 /\ mag[16] < 8)

\* The i64 of a magnitude that fits.
ToI64(mag) == [i \in 1 .. 16 |-> IF 17 - i <= Len(mag) THEN mag[17 - i] ELSE 0]

Keywords ==
    <<  <<"l", "e", "t">>, <<"r", "e", "t", "u", "r", "n">>, <<"f", "o", "r">>,
        <<"i", "n">>, <<"t", "o">>, <<"s", "t", "e", "p">>, <<"i", "f">>,
        <<"e", "l", "s", "e">>, <<"t", "r", "u", "e">>,
        <<"f", "a", "l", "s", "e">>  >>

KeywordTags ==
    <<"Let", "Return", "For", "In", "To", "Step", "If", "Else", "True", "False">>

WordToken(w) ==
    IF \E i \in 1 .. Len(Keywords) : Keywords[i] = w
    THEN Tok(KeywordTags[CHOOSE i \in 1 .. Len(Keywords) : Keywords[i] = w])
    ELSE IdentifierToken(w)

DecimalToken(cs) ==
    IF FitsI64(DecimalValue(cs)) THEN DecimalIntLiteral(ToI64(DecimalValue(cs)))
    ELSE InvalidLiteralToken

HexToken(cs) ==
    IF FitsI64(HexValue(cs)) THEN HexIntLiteral(ToI64(HexValue(cs)))
    ELSE InvalidLiteralToken

TwoCharSymbols == {<<"=", "=">>, <<"!", "=">>, <<">", "=">>, <<"<", "=">>}

SymbolTag(sym) ==
    CASE sym = <<"+">> -> "Plus"
      [] sym = <<"-">> -> "Minus"
      [] sym = <<"*">> -> "Asterisk"
      [] sym = <<"/">> -> "Slash"
      [] sym = <<"=">> -> "Assign"
      [] sym = <<"=", "=">> -> "Equal"
      [] sym = <<"!", "=">> -> "NotEqual"
      [] sym = <<">">> -> "GreaterThan"
      [] sym = <<">", "=">> -> "GreaterThanOrEqual"
      [] sym = <<"<">> -> "LessThan"
      [] sym = <<"<", "=">> -> "LessThanOrEqual"
      [] sym = <<"!">> -> "Bang"
      [] sym = <<"(">> -> "LParen"
      [] sym = <<")">> -> "RParen"
      [] sym = <<"[">> -> "LBracket"
      [] sym = <<"]">> -> "RBracket"
      [] sym = <<"{">> -> "LBrace"
      [] sym = <<"}">> -> "RBrace"
      [] sym = <<",">> -> "Comma"
      [] sym = <<":">> -> "Colon"
      [] sym = <<";">> -> "Semicolon"
      [] OTHER -> "Unknown"

IsHexPrefix(cs) ==
    Len(cs) >= 3 /\ cs[1] = "0" /\ cs[2] = "x" /\ cs[3] \in HexDigitChars

RECURSIVE Lex(_)
\* The tokens of a text, longest match first.
Lex(cs) ==
    IF cs = <<>> THEN <<>>
    ELSE LET c == Head(cs)
         IN  CASE c \in Whitespace -> Lex(Tail(cs))
               [] IsHexPrefix(cs) ->
                    LET k == RunLen(Drop(cs, 2), HexDigitChars)
                    IN  <<HexToken(SubSeq(cs, 3, 2 + k))>> \o Lex(Drop(cs, 2 + k))
               [] c \in DigitChars /\ ~IsHexPrefix(cs) ->
                    LET k == RunLen(cs, DigitChars)
                    IN  <<DecimalToken(Take(cs, k))>> \o Lex(Drop(cs, k))
               [] c \in Letters ->
                    LET k == RunLen(cs, Letters \cup DigitChars)
                    IN  <<WordToken(Take(cs, k))>> \o Lex(Drop(cs, k))
               [] c = QUOTE ->
                    LET rest == Tail(cs)
                        k    == RunLen(rest, {x \in Range(rest) : x # QUOTE})
                    IN  IF k < Len(rest)
                        THEN <<StringLiteral(Take(rest, k))>> \o Lex(Drop(rest, k + 1))
                        ELSE <<InvalidLiteralToken>>
               [] OTHER ->
                    IF Len(cs) >= 2 /\ Take(cs, 2) \in TwoCharSymbols
                    THEN <<Tok(SymbolTag(Take(cs, 2)))>> \o Lex(Drop(cs, 2))
                    ELSE <<Tok(SymbolTag(<<c>>))>> \o Lex(Tail(cs))

(***************************************************************************)
(* Reading an expression with the precedence table of section 4.2          *)
(* (precedence climbing over prefix operators, infix operators, grouping,  *)
(* identifiers and literals).                                              *)
(***************************************************************************)
InfixTags ==
    {"Plus", "Minus", "Asterisk", "Slash", "Equal", "NotEqual", "GreaterThan",
     "GreaterThanOrEqual", "LessThan", "LessThanOrEqual"}

\* equality < relational < additive < multiplicative < prefix
BindingPower(tag) ==
    CASE tag \in {"Equal", "NotEqual"} -> 1
      [] tag \in {"GreaterThan", "GreaterThanOrEqual", "LessThan",
                  "LessThanOrEqual"} -> 2
      [] tag \in {"Plus", "Minus"} -> 3
      [] tag \in {"Asterisk", "Slash"} -> 4

PrefixBindingPower == 5

InfixOfTag(tag) ==
    CASE tag = "Plus" -> "Add"
      [] tag = "Minus" -> "Subtract"
      [] tag = "Asterisk" -> "Multiply"
      [] tag = "Slash" -> "Divide"
      [] OTHER -> tag

PrefixOfTag(tag) == IF tag = "Minus" THEN "Negate" ELSE "Bitflip"

Parsed(node, rest) == [ok |-> TRUE, node |-> node, rest |-> rest]

Failed(e) == [ok |-> FALSE, err |-> e]

RECURSIVE parse_expression(_, _)
RECURSIVE parse_infix(_, _, _)

\* A primary: identifier, literal or parenthesized expression.
parse_primary(toks) ==
    IF toks = <<>> THEN Failed("UnexpectedEndOfInput")
    ELSE LET t == Head(toks)
         IN  CASE t.tag = "Identifier" ->
                    Parsed(ExprIdentifier(Identifier(t.name)), Tail(toks))
               [] t.tag = "DecimalIntLiteral" ->
                    Parsed(ExprLiteral(LiteralDecimalInt(t.val)), Tail(toks))
               [] t.tag = "HexIntLiteral" ->
                    Parsed(ExprLiteral(LiteralHexInt(t.val)), Tail(toks))
               [] t.tag = "StringLiteral" ->
                    Parsed(ExprLiteral(LiteralString(t.str)), Tail(toks))
               [] t.tag \in {"True", "False"} ->
                    Parsed(ExprLiteral(LiteralBool(t.tag = "True")), Tail(toks))
               [] t.tag = "InvalidLiteral" -> Failed("InvalidLiteral")
               [] t.tag = "LParen" ->
                    LET r == parse_expression(Tail(toks), 0)
                    IN  IF ~r.ok THEN r
                        ELSE IF r.rest = <<>> THEN Failed("UnexpectedEndOfInput")
                        ELSE IF Head(r.rest).tag # "RParen"
                             THEN Failed("MismatchedBracket")
                        ELSE Parsed(r.node, Tail(r.rest))
               [] OTHER -> Failed("UnexpectedToken")

\* While the next token is an infix operator binding tighter than min_bp:
\* consume it, read its right operand and fold.
parse_infix(left, toks, min_bp) ==
    IF toks # <<>> /\ Head(toks).tag \in InfixTags
                   /\ BindingPower(Head(toks).tag) > min_bp
    THEN LET r == parse_expression(Tail(toks), BindingPower(Head(toks).tag))
         IN  IF ~r.ok THEN r
             ELSE parse_infix(ExprInfix(InfixOfTag(Head(toks).tag), left, r.node),
                              r.rest, min_bp)
    ELSE Parsed(left, toks)

\* parse_expression(min_binding_power)
parse_expression(toks, min_bp) ==
    LET left ==
            IF toks # <<>> /\ Head(toks).tag \in {"Minus", "Bang"}
            THEN LET r == parse_expression(Tail(toks), PrefixBindingPower)
                 IN  IF ~r.ok THEN r
                     ELSE Parsed(ExprPrefix(PrefixOfTag(Head(toks).tag), r.node),
                                 r.rest)
            ELSE parse_primary(toks)
    IN  IF ~left.ok THEN left ELSE parse_infix(left.node, left.rest, min_bp)

\* The expression a whole token sequence reads as.
ReadExpression(toks) ==
    LET r == parse_expression(toks, 0)
    IN  IF ~r.ok THEN Err(r.err)
        ELSE IF r.rest # <<>> THEN Err("UnexpectedToken")
        ELSE Ok(r.node)

(***************************************************************************)
(* Rendering an AST and parsing the text again: the node is rendered with  *)
(* Display, the text is tokenized, and the tokens go through a parse       *)
(* session (session 1).                                                    *)
(***************************************************************************)
Lit(n) == ExprLiteral(LiteralDecimalInt(I64(n)))

Var(c) == ExprIdentifier(Identifier(<<c>>))

I64Values == {I64(n) : n \in (0 - MaxInt) .. MaxInt} \cup {MinI64, MaxI64}

Literals ==
    {LiteralDecimalInt(x) : x \in I64Values}
        \cup {LiteralHexInt(x) : x \in I64Values}
        \cup {LiteralString(<<"h", "i">>), LiteralBool(TRUE), LiteralBool(FALSE)}

Atoms == {Lit(1), Var("x")}

Infix1 == {ExprInfix(op, a, b) : op \in InfixOps, a \in Atoms, b \in Atoms}

Infix2 ==
    {ExprInfix(op, a, b) : op \in InfixOps, a \in Infix1, b \in Atoms}
        \cup {ExprInfix(op, a, b) : op \in InfixOps, a \in Atoms, b \in Infix1}

Prefixes ==
    {ExprPrefix(op, e) :
        op \in PrefixOps, e \in Atoms \cup {ExprInfix("Add", Lit(1), Lit(2))}}

ListElems == {Lit(1), Var("x"), ExprArray(<<Lit(2)>>)}

Lists == SeqsUpTo(ListElems, MaxArgs)

Arrays == {ExprArray(es) : es \in Lists}

Calls == {ExprFunctionCall(Var("f"), es) : es \in Lists}

EmptyBlock == Block(<<>>)

OneBlock == Block(<<StatementExpression(Var("x"))>>)

Composites ==
    {ExprIndex(Var("a"), Lit(0)),
     ExprHash(<<>>),
     ExprHash(<< <<LiteralString(<<"k">>), Lit(1)>> >>),
     ExprHash(<< <<LiteralBool(TRUE), Lit(1)>>, <<LiteralHexInt(I64(10)), Var("x")>> >>),
     ExprFor(Identifier(<<"i">>), Lit(0), Lit(10), None, EmptyBlock),
     ExprFor(Identifier(<<"i">>), Lit(0), Lit(10), Some(Lit(2)), OneBlock),
     ExprIfExpr(ExprLiteral(LiteralBool(TRUE)), EmptyBlock, None),
     ExprIfExpr(Var("x"), OneBlock, Some(OneBlock))}

Expressions ==
    Atoms \cup {ExprLiteral(l) : l \in Literals} \cup Infix1 \cup Infix2
        \cup Prefixes \cup Arrays \cup Calls \cup Composites

StatementExprs ==
    {Lit(1), ExprLiteral(LiteralHexInt(I64(10))),
     ExprInfix("Multiply", ExprInfix("Add", Lit(1), Lit(2)), Lit(3)),
     ExprFunctionCall(Var("f"), <<Var("x")>>)}

Statements ==
    {StatementLet(Identifier(<<"x">>), e) : e \in StatementExprs}
        \cup {StatementReturn(e) : e \in StatementExprs}
        \cup {StatementExpression(e) : e \in StatementExprs}

Blocks == {Block(ss) : ss \in SeqsUpTo(Statements, MaxStmts)}

Nodes == Literals \cup Expressions \cup Statements \cup Blocks

\* format!("{}", ast)
Render ==
    /\ phase = "ast"
    /\ text' = Display(ast)
    /\ phase' = "text"
    /\ UNCHANGED <<parser, input, results, tree, ast>>

\* The lexer turns the text into the token sequence session 1 is handed.
Tokenize ==
    /\ phase = "text"
    /\ input' = [input EXCEPT ![1] = Lex(text)]
    /\ phase' = "tokens"
    /\ UNCHANGED <<parser, results, tree, ast, text>>

RenderInit ==
    /\ parser = [s \in Sessions |-> new]
    /\ input = [s \in Sessions |-> <<>>]
    /\ results = [s \in Sessions |-> <<>>]
    /\ tree = [s \in Sessions |-> NoResult]
    /\ ast \in Nodes
    /\ text = <<>>
    /\ phase = "ast"

RenderNext ==
    \/ Render
    \/ Tokenize
    \/ Feed(1)
    \/ GetTree(1)

RenderSpec == RenderInit /\ [][RenderNext]_vars

(***************************************************************************)
(* Properties of parse sessions.                                           *)
(***************************************************************************)
\* C1: a session fed the complete construct DecimalIntLiteral(123) one token
\* at a time has every feed succeed, and get_tree then returns Ok with the
\* Block of exactly one Statement::Expression(Literal(DecimalInt(123))).
C1_FeedThenTree ==
    \A s \in Sessions :
        (input[s] = ProgLiteral /\ Done(s)) =>
            /\ \A i \in 1 .. Fed(s) : results[s][i] = Ok(Unit)
            /\ tree[s] =
                 Ok(Block(<<StatementExpression(
                              ExprLiteral(LiteralDecimalInt(I64(123))))>>))

\* C3: the tokens of `1 + 2 * 3;` parse to
\* Infix(Add, Literal(1), Infix(Multiply, Literal(2), Literal(3))).
C3_Precedence ==
    \A s \in Sessions :
        (input[s] = ProgPrecedence /\ Done(s)) =>
            tree[s] =
              Ok(Block(<<StatementExpression(
                   ExprInfix("Add", ExprLiteral(LiteralDecimalInt(I64(1))),
                       ExprInfix("Multiply",
                           ExprLiteral(LiteralDecimalInt(I64(2))),
                           ExprLiteral(LiteralDecimalInt(I64(3))))))>>))

\* C4: the tokens of `let x = 1` without `;` fail with an error of kind
\* MissingTerminator.
C4_MissingTerminator ==
    \A s \in Sessions :
        (input[s] = ProgLetNoTerminator /\ Done(s)) =>
            FirstError(s) = Err("MissingTerminator")

\* C5: once a feed call of a session has returned an error, get_tree of that
\* session returns an error and no Block.
C5_FailFast ==
    \A s \in Sessions :
        ((\E i \in 1 .. Fed(s) : results[s][i].kind = "Err") /\ Done(s)) =>
            tree[s].kind = "Err"

\* C5 witness: a finished session one of whose feed calls returned an error.
C5_Witness ==
    \E s \in Sessions :
        /\ Done(s)
        /\ \E i \in 1 .. Fed(s) : results[s][i].kind = "Err"

C7_Terminates == <>(\A s \in Sessions : Done(s) /\ tree[s].kind \in {"Ok", "Err"})

\* C7 witness: a session over a malformed sequence of several tokens has
\* made all its feed calls and finished.
C7_Witness ==
    \E s \in Sessions :
        /\ input[s] = <<Tok("Plus"), Tok("Plus")>>
        /\ Fed(s) = 2
        /\ Done(s)

(***************************************************************************)
(* Properties of rendering.                                                *)
(***************************************************************************)
RECURSIVE EraseRadix(_)
RECURSIVE EraseRadixAll(_)
EraseRadixAll(ns) == [i \in 1 .. Len(ns) |-> EraseRadix(ns[i])]

\* The node with every HexInt literal turned into the DecimalInt of the
\* same value.
EraseRadix(n) ==
    CASE n.kind = "HexInt" -> LiteralDecimalInt(n.val)
      [] n.kind = "ExprLiteral" -> ExprLiteral(EraseRadix(n.lit))
      [] n.kind = "Prefix" -> ExprPrefix(n.op, EraseRadix(n.expr))
      [] n.kind = "Infix" -> ExprInfix(n.op, EraseRadix(n.l), EraseRadix(n.r))
      [] n.kind = "For" ->
            ExprFor(n.id, EraseRadix(n.start), EraseRadix(n.end),
                    EraseRadix(n.step), EraseRadix(n.body))
      [] n.kind = "IfExpr" ->
            ExprIfExpr(EraseRadix(n.cond), EraseRadix(n.then), EraseRadix(n.els))
      [] n.kind = "FunctionCall" ->
            ExprFunctionCall(EraseRadix(n.callee), EraseRadixAll(n.args))
      [] n.kind = "Array" -> ExprArray(EraseRadixAll(n.elems))
      [] n.kind = "Hash" ->
            ExprHash([i \in 1 .. Len(n.pairs) |->
                        <<EraseRadix(n.pairs[i][1]), EraseRadix(n.pairs[i][2])>>])
      [] n.kind = "Index" -> ExprIndex(EraseRadix(n.array), EraseRadix(n.index))
      [] n.kind = "Block" -> Block(EraseRadixAll(n.stmts))
      [] n.kind = "Let" -> StatementLet(n.id, EraseRadix(n.expr))
      [] n.kind = "Return" -> StatementReturn(EraseRadix(n.expr))
      [] n.kind = "Expression" -> StatementExpression(EraseRadix(n.expr))
      [] n.kind = "Some" -> Some(EraseRadix(n.val))
      [] OTHER -> n

\* C2: rendering a Block and parsing the tokens of the text again yields a
\* Block equal to the original up to the radix of integer literals.
C2_RoundTrip ==
    (phase = "tokens" /\ ast.kind = "Block" /\ Done(1)) =>
        /\ tree[1].kind = "Ok"
        /\ EraseRadix(tree[1].val) = EraseRadix(ast)

\* C8: an Infix(op, l, r) renders as render(l), a space, the operator symbol,
\* a space, render(r), without parentheses, and reading that text with the
\* precedence table gives the same tree again.
C8_InfixReadsBack ==
    (phase = "text" /\ ast.kind = "Infix") =>
        /\ text = Display(ast.l) \o <<" ">> \o DisplayInfix(ast.op) \o <<" ">>
                      \o Display(ast.r)
        /\ Range(text) \cap {"(", ")"} = {}
        /\ ReadExpression(Lex(text)) = Ok(ast)

RECURSIVE SplitTop(_, _, _)
\* The pieces of cs between the separators `, ` that stand outside every
\* bracket; cur is the piece being read and depth the open brackets.
SplitTop(cs, depth, cur) ==
    IF cs = <<>> THEN <<cur>>
    ELSE LET c == Head(cs)
         IN  CASE c \in {"[", "(", "{"} ->
                    SplitTop(Tail(cs), depth + 1, Append(cur, c))
               [] c \in {"]", ")", "}"} ->
                    SplitTop(Tail(cs), depth - 1, Append(cur, c))
               [] c = "," /\ depth = 0 /\ Len(cs) >= 2 /\ cs[2] = " " ->
                    <<cur>> \o SplitTop(Drop(cs, 2), 0, <<>>)
               [] OTHER -> SplitTop(Tail(cs), depth, Append(cur, c))

\* The elements of a rendered list node and the text around them.
ListParts(n) ==
    IF n.kind = "Array"
    THEN [open |-> <<"[">>, close |-> <<"]", NL>>, elems |-> n.elems]
    ELSE [open |-> Display(n.callee) \o <<"(">>, close |-> <<")", NL>>,
          elems |-> n.args]

\* C9: an argument list or array of n elements renders as the n elements in
\* their order with n - 1 separators `, ` between them, none before the
\* closing bracket, and nothing between the brackets when n = 0.
C9_NoTrailingComma ==
    (phase = "text" /\ ast.kind \in {"Array", "FunctionCall"}) =>
        LET p     == ListParts(ast)
            n     == Len(p.elems)
            k     == Len(text) - Len(p.open) - Len(p.close)
            inner == SubSeq(text, Len(p.open) + 1, Len(p.open) + k)
        IN  /\ k >= 0
            /\ Take(text, Len(p.open)) = p.open
            /\ Drop(text, Len(p.open) + k) = p.close
            /\ n = 0 => inner = <<>>
            /\ n > 0 =>
                 /\ SplitTop(inner, 0, <<>>) = [i \in 1 .. n |-> Display(p.elems[i])]
                 /\ inner[k] \notin {",", " "}

\* C9 witness: an array or argument list of two elements, the first a nested
\* array, has been rendered.
C9_Witness ==
    /\ phase = "text"
    /\ ast.kind \in {"Array", "FunctionCall"}
    /\ Len(ListParts(ast).elems) = 2
    /\ ListParts(ast).elems[1].kind = "Array"

\* The signed value of an i64: its sign and its magnitude.
SignedValue(x) ==
    LET mag == StripZeros(IF IsNegative(x) THEN WrappingNeg(x) ELSE x)
    IN  [neg |-> IsNegative(x),
         mag |-> IF IsZero(mag) THEN <<>>
                 ELSE [i \in 1 .. Len(mag) |-> mag[Len(mag) + 1 - i]]]

\* The signed value an integer literal's text denotes.
Denoted(cs) ==
    IF Len(cs) >= 2 /\ Take(cs, 2) = <<"0", "x">>
    THEN [neg |-> FALSE, mag |-> HexValue(Drop(cs, 2))]
    ELSE IF cs # <<>> /\ Head(cs) = "-"
    THEN [neg |-> TRUE, mag |-> DecimalValue(Tail(cs))]
    ELSE [neg |-> FALSE, mag |-> DecimalValue(cs)]

C10_TwosComplementDigits ==
    (phase = "text" /\ ast.kind = "HexInt" /\ IsNegative(ast.val)) =>
        /\ HexValue(Drop(text, 2)) = [i \in 1 .. 16 |-> ast.val[17 - i]]
        /\ ~FitsI64(HexValue(Drop(text, 2)))

\* On integers that are not negative the rendered digits denote the value.
C10_NonNegativePreserved ==
    (phase = "text" /\ ast.kind \in {"DecimalInt", "HexInt"}
        /\ ~IsNegative(ast.val)) => Denoted(text) = SignedValue(ast.val)

\* Decimal rendering denotes the value for every i64.
C10_DecimalPreserved ==
    (phase = "text" /\ ast.kind = "DecimalInt") =>
        Denoted(text) = SignedValue(ast.val)

====
